---- MODULE Spec2Model ----
(***************************************************************************)
(* String Analyzer API: the two server variants (server.js and its         *)
(* reworked copy), run on the in-memory backend (no MONGODB_URI).          *)
(*                                                                         *)
(* A JavaScript string is a sequence of one-character strings.  A request  *)
(* handler is an async function: it runs without interruption up to its    *)
(* await, and its continuation runs in a later step.                       *)
(***************************************************************************)
EXTENDS Integers, Sequences, FiniteSets, TLC

VARIABLES
  variant,        \* which server runs: "server" (server.js) or "part_001"
  inMemoryStore,  \* the Map: _id -> document
  now,            \* the reading of new Date()
  reqs,           \* per slot: the request, its handler's position (pc) and
                  \* awaited value (local), and the response (res)
  hist            \* history: the last change of each value that took effect,
                  \* "posted" (an insert answered 201), "deleted" (a delete
                  \* answered 204) or "never"; a request's field prior is
                  \* hist of its value when its handler touched the store

vars == <<variant, inMemoryStore, now, reqs, hist>>

(***************************************************************************)
(* Bounds of the model.                                                    *)
(***************************************************************************)
MaxClock == 1        \* the wall clock (new Date()) reads 0..MaxClock
MaxFrags == 3        \* fragments a natural-language query is made of
MaxNumLen == 3       \* characters of a numeric query parameter
MaxLen == 4          \* characters of a string isPalindrome is applied to

(***************************************************************************)
(* Characters.                                                             *)
(***************************************************************************)
LowerCase ==
  << "a", "b", "c", "d", "e", "f", "g", "h", "i", "j", "k", "l", "m",
     "n", "o", "p", "q", "r", "s", "t", "u", "v", "w", "x", "y", "z" >>

UpperCase ==
  << "A", "B", "C", "D", "E", "F", "G", "H", "I", "J", "K", "L", "M",
     "N", "O", "P", "Q", "R", "S", "T", "U", "V", "W", "X", "Y", "Z" >>

Digits == << "0", "1", "2", "3", "4", "5", "6", "7", "8", "9" >>

Others == << " ", "\t", "\n", "!", ".", "-", "+", "?", "," >>

Alphabet == LowerCase \o UpperCase \o Digits \o Others

Range(s) == { s[i] : i \in DOMAIN s }

IsLower(c) == c \in Range(LowerCase)
IsDigit(c) == c \in Range(Digits)
\* the class \s of a regular expression, as far as Alphabet has it
IsSpace(c) == c \in {" ", "\t", "\n"}

IndexIn(seq, c) == CHOOSE i \in DOMAIN seq : seq[i] = c

\* String.prototype.toLowerCase, one character
LowerChar(c) ==
  IF c \in Range(UpperCase) THEN LowerCase[IndexIn(UpperCase, c)] ELSE c

toLowerCase(s) == [ i \in DOMAIN s |-> LowerChar(s[i]) ]

Reverse(s) == [ i \in DOMAIN s |-> s[Len(s) + 1 - i] ]

(***************************************************************************)
(* Helpers.                                                                *)
(***************************************************************************)
\* crypto's sha256 digest is collision free in practice; the digest of the
\* model is the numeral of the string over Alphabet, which is injective too
RECURSIVE calculateHash(_)
calculateHash(value) ==
  IF value = << >> THEN 0
  ELSE calculateHash(SubSeq(value, 1, Len(value) - 1)) * (Len(Alphabet) + 1)
         + IndexIn(Alphabet, value[Len(value)])

IsAlnum(c) == IsLower(c) \/ IsDigit(c)

\* a comparison that keeps every character
isPalindromeRaw(value) ==
  LET cleaned == toLowerCase(value)
  IN  cleaned = Reverse(cleaned)

isPalindrome(value) ==
  LET cleaned == SelectSeq(toLowerCase(value), IsAlnum)
  IN  cleaned = Reverse(cleaned)

countUniqueCharacters(value) == Cardinality(Range(value))

\* String.prototype.trim
RECURSIVE TrimLeft(_)
TrimLeft(s) ==
  IF s # << >> /\ IsSpace(Head(s)) THEN TrimLeft(Tail(s)) ELSE s

trim(s) == Reverse(TrimLeft(Reverse(TrimLeft(s))))

\* String.prototype.split(/\s+/): cur is the piece being read
RECURSIVE SplitFrom(_, _)
SplitFrom(s, cur) ==
  IF s = << >> THEN << cur >>
  ELSE IF IsSpace(Head(s)) THEN << cur >> \o SplitFrom(TrimLeft(s), << >>)
  ELSE SplitFrom(Tail(s), Append(cur, Head(s)))

split(s) == SplitFrom(s, << >>)

NonEmpty(w) == Len(w) > 0

countWords(value) == Len(SelectSeq(split(trim(value)), NonEmpty))

createCharacterFrequencyMap(value) ==
  [ c \in Range(value) |-> Cardinality({ i \in DOMAIN value : value[i] = c }) ]

computeStringProperties(value) ==
  [ length |-> Len(value),
    is_palindrome |-> isPalindrome(value),
    unique_characters |-> countUniqueCharacters(value),
    word_count |-> countWords(value),
    sha256_hash |-> calculateHash(value),
    character_frequency_map |-> createCharacterFrequencyMap(value) ]

(***************************************************************************)
(* Requests.                                                               *)
(***************************************************************************)
Variants == { "server", "part_001" }

\* two requests can be in flight together
Slots == { 1, 2 }

\* the strings clients post, get and delete
Values == { << "A", " ", "b" >>, << "l", "e", "v", "e", "l" >> }

\* JSON values of a request body
JString(s) == [ type |-> "string", str |-> s ]
JNumber == [ type |-> "number", str |-> << >> ]
JNull == [ type |-> "object", str |-> << >> ]

\* req.body: undefined, {}, { value: ... }
Bodies ==
  { [ defined |-> FALSE, has_value |-> FALSE, value |-> JNull ],
    [ defined |-> TRUE, has_value |-> FALSE, value |-> JNull ] }
  \cup { [ defined |-> TRUE, has_value |-> TRUE, value |-> j ] :
           j \in { JString(v) : v \in Values } \cup { JNumber, JNull } }

NoBody == [ defined |-> FALSE, has_value |-> FALSE, value |-> JNull ]

Null == [ null |-> TRUE ]

Response(code, json) == [ status |-> code, json |-> json ]

NoResponse == Response(0, Null)

Error(code, error, message) ==
  Response(code, [ error |-> error, message |-> message ])

\* a parameter of req.query: a string, or undefined
Param(s) == [ defined |-> TRUE, str |-> s ]

Undefined == [ defined |-> FALSE, str |-> << >> ]

ParamNames ==
  { "query", "is_palindrome", "min_length", "max_length", "word_count",
    "contains_character" }

NoQuery == [ p \in ParamNames |-> Undefined ]

IdleReq ==
  [ pc |-> "idle", op |-> "none", body |-> NoBody, stringValue |-> << >>,
    query |-> NoQuery, local |-> Null, prior |-> "none", res |-> NoResponse ]

\* a request that has been routed to its handler
Received(op, query) ==
  [ IdleReq EXCEPT !.pc = "received", !.op = op, !.query = query ]

(***************************************************************************)
(* Persistence: the in-memory Map, keyed by _id.                           *)
(***************************************************************************)
mapDocToResponse(doc) ==
  [ id |-> doc._id, value |-> doc.value, properties |-> doc.properties,
    created_at |-> doc.created_at ]

memInsert(store, doc) ==
  [ k \in DOMAIN store \cup { doc._id } |->
      IF k = doc._id THEN doc ELSE store[k] ]

\* a query of memFind: each key is there or not
Has(f, key) == key \in DOMAIN f

\* new RegExp(ch, 'i').test(value), ch one (escaped) character: some
\* character of value is ch up to case
UpperChar(c) ==
  IF c \in Range(LowerCase) THEN UpperCase[IndexIn(LowerCase, c)] ELSE c

RegexTestIgnoreCase(ch, value) ==
  \E i \in DOMAIN value : UpperChar(value[i]) = UpperChar(ch)

\* a find whose lower bound of the length is exclusive
MatchesExclusive(v, query) ==
  /\ Has(query, "properties.is_palindrome") =>
       v.properties.is_palindrome = query["properties.is_palindrome"]
  /\ Has(query, "properties.word_count") =>
       v.properties.word_count = query["properties.word_count"]
  /\ (Has(query, "properties.length") /\ Has(query["properties.length"], "$gte"))
       => v.properties.length > query["properties.length"]["$gte"]
  /\ (Has(query, "properties.length") /\ Has(query["properties.length"], "$lte"))
       => v.properties.length <= query["properties.length"]["$lte"]
  /\ Has(query, "value") => RegexTestIgnoreCase(query["value"]["$regex"], v.value)

Matches(v, query) ==
  /\ Has(query, "properties.is_palindrome") =>
       v.properties.is_palindrome = query["properties.is_palindrome"]
  /\ Has(query, "properties.word_count") =>
       v.properties.word_count = query["properties.word_count"]
  /\ (Has(query, "properties.length") /\ Has(query["properties.length"], "$gte"))
       => v.properties.length >= query["properties.length"]["$gte"]
  /\ (Has(query, "properties.length") /\ Has(query["properties.length"], "$lte"))
       => v.properties.length <= query["properties.length"]["$lte"]
  /\ Has(query, "value") => RegexTestIgnoreCase(query["value"]["$regex"], v.value)

\* the documents found, without the order the Map yields them in
memFind(store, query) ==
  { store[k] : k \in { k \in DOMAIN store : Matches(store[k], query) } }

\* a lookup that answers with whatever record the Map holds
memFindOneAny(store, id) ==
  IF DOMAIN store = { } THEN Null
  ELSE store[CHOOSE k \in DOMAIN store : \A j \in DOMAIN store : k <= j]

memFindOne(store, id) == IF id \in DOMAIN store THEN store[id] ELSE Null

\* a soft delete: reports the deletion and keeps the record
memDeleteOneKeep(store, id) ==
  [ store |-> store,
    result |-> [ deletedCount |-> IF id \in DOMAIN store THEN 1 ELSE 0 ] ]

\* a delete that empties the Map
memDeleteOneClear(store, id) ==
  [ store |-> IF id \in DOMAIN store THEN [ k \in { } |-> Null ] ELSE store,
    result |-> [ deletedCount |-> IF id \in DOMAIN store THEN 1 ELSE 0 ] ]

memDeleteOne(store, id) ==
  LET existed == id \in DOMAIN store
  IN  [ store |-> [ k \in DOMAIN store \ { id } |-> store[k] ],
        result |-> [ deletedCount |-> IF existed THEN 1 ELSE 0 ] ]

memCount(store) == Cardinality(DOMAIN store)

EmptyStore == [ k \in { } |-> Null ]

(***************************************************************************)
(* The state after start-up: tryConnectMongoose found no MONGODB_URI.      *)
(***************************************************************************)
Init ==
  /\ variant \in Variants
  /\ inMemoryStore = EmptyStore
  /\ now = 0
  /\ reqs = [ r \in Slots |-> IdleReq ]
  /\ hist = [ v \in Values |-> "never" ]

\* a slot takes a new request when none is in flight in it
Free(r) == reqs[r].pc \in { "idle", "done" }

Respond(r, req, res) ==
  reqs' = [ reqs EXCEPT ![r] = [ req EXCEPT !.pc = "done", !.res = res ] ]

Await(r, req, local) ==
  reqs' = [ reqs EXCEPT ![r] = [ req EXCEPT !.pc = "await", !.local = local ] ]

\* time passes between two requests
Tick ==
  /\ now < MaxClock
  /\ now' = now + 1
  /\ UNCHANGED << variant, inMemoryStore, reqs, hist >>

(***************************************************************************)
(* POST /strings                                                           *)
(***************************************************************************)
\* a check of the body that forgets the 'value' key
MissingValueBodyOnly(body) == ~ body.defined

MissingValue(body) == ~ body.defined \/ ~ body.has_value

\* a document whose _id is the digest of the lowercased value
NewDocLowerId(value, created_at) ==
  LET properties == computeStringProperties(value)
  IN  [ _id |-> calculateHash(toLowerCase(value)), value |-> value,
        properties |-> properties, created_at |-> created_at ]

NewDoc(value, created_at) ==
  LET properties == computeStringProperties(value)
      id == properties.sha256_hash
  IN  [ _id |-> id, value |-> value, properties |-> properties,
        created_at |-> created_at ]

\* does the handler answer 409 instead of inserting?  server.js inserts
\* first and looks for a conflict only when the insert throws, which the
\* Map never does; the reworked copy asks the Map before it inserts
Conflict(v, store, id) ==
  CASE v = "server" -> FALSE
    [] v = "part_001" -> id \in DOMAIN store

PostStrings(r, body) ==
  /\ Free(r)
  /\ LET req == [ IdleReq EXCEPT !.op = "POST", !.body = body ]
     IN  IF MissingValue(body)
         THEN /\ Respond(r, req,
                   Error(400, "Bad Request", "Missing \"value\" field"))
              /\ UNCHANGED << inMemoryStore, hist >>
         ELSE IF body.value.type # "string"
         THEN /\ Respond(r, req,
                   Error(422, "Unprocessable Entity",
                         "\"value\" must be a string"))
              /\ UNCHANGED << inMemoryStore, hist >>
         ELSE LET value == body.value.str
                  doc == NewDoc(value, now)
                  seen == [ req EXCEPT !.prior = hist[value] ]
              IN  IF Conflict(variant, inMemoryStore, doc._id)
                  THEN /\ Respond(r, seen,
                            Error(409, "Conflict",
                                  "String already exists in the system"))
                       /\ UNCHANGED << inMemoryStore, hist >>
                  ELSE /\ inMemoryStore' = memInsert(inMemoryStore, doc)
                       /\ Await(r, seen, doc)
                       /\ hist' = [ hist EXCEPT ![value] = "posted" ]
  /\ UNCHANGED << variant, now >>

PostStringsResume(r) ==
  /\ reqs[r].pc = "await"
  /\ reqs[r].op = "POST"
  /\ Respond(r, reqs[r], Response(201, mapDocToResponse(reqs[r].local)))
  /\ UNCHANGED << variant, inMemoryStore, now, hist >>

(***************************************************************************)
(* DELETE /strings/:stringValue                                            *)
(***************************************************************************)
DeleteString(r, stringValue) ==
  /\ Free(r)
  /\ LET req == [ IdleReq EXCEPT !.op = "DELETE", !.stringValue = stringValue,
                                 !.prior = hist[stringValue] ]
         id == calculateHash(stringValue)
         done == memDeleteOne(inMemoryStore, id)
     IN  /\ inMemoryStore' = done.store
         /\ Await(r, req, done.result)
         /\ hist' = IF done.result.deletedCount = 0 THEN hist
                    ELSE [ hist EXCEPT ![stringValue] = "deleted" ]
  /\ UNCHANGED << variant, now >>

DeleteStringResume(r) ==
  /\ reqs[r].pc = "await"
  /\ reqs[r].op = "DELETE"
  /\ LET result == reqs[r].local
     IN  IF result.deletedCount = 0
         THEN Respond(r, reqs[r],
                Error(404, "Not Found", "String does not exist in the system"))
         ELSE Respond(r, reqs[r], Response(204, Null))
  /\ UNCHANGED << variant, inMemoryStore, now, hist >>

(***************************************************************************)
(* GET /strings/:stringValue                                               *)
(***************************************************************************)
GetString(r, stringValue) ==
  /\ Free(r)
  /\ LET req == [ IdleReq EXCEPT !.op = "GET", !.stringValue = stringValue,
                                 !.prior = hist[stringValue] ]
         id == calculateHash(stringValue)
     IN  Await(r, req, memFindOne(inMemoryStore, id))
  /\ UNCHANGED << variant, inMemoryStore, now, hist >>

GetStringResume(r) ==
  /\ reqs[r].pc = "await"
  /\ reqs[r].op = "GET"
  /\ LET doc == reqs[r].local
     IN  IF doc = Null
         THEN Respond(r, reqs[r],
                Error(404, "Not Found", "String does not exist in the system"))
         ELSE Respond(r, reqs[r], Response(200, mapDocToResponse(doc)))
  /\ UNCHANGED << variant, inMemoryStore, now, hist >>

(***************************************************************************)
(* GET /strings/filter-by-natural-language                                 *)
(***************************************************************************)
\* s has the text p at position i
StartsAt(s, i, p) ==
  /\ i + Len(p) - 1 <= Len(s)
  /\ SubSeq(s, i, i + Len(p) - 1) = p

\* String.prototype.includes
includes(s, p) == \E i \in 1 .. Len(s) + 1 : StartsAt(s, i, p)

\* the positions after the text lit read at one of the positions P
After(s, P, lit) == { i + Len(lit) : i \in { i \in P : StartsAt(s, i, lit) } }

\* the value of a run of decimal digits
RECURSIVE DecimalValue(_)
DecimalValue(digits) ==
  IF digits = << >> THEN 0
  ELSE DecimalValue(SubSeq(digits, 1, Len(digits) - 1)) * 10
         + (IndexIn(Digits, digits[Len(digits)]) - 1)

\* the longest run of digits of s from position i
RECURSIVE DigitRun(_, _)
DigitRun(s, i) ==
  IF i <= Len(s) /\ IsDigit(s[i]) THEN << s[i] >> \o DigitRun(s, i + 1)
  ELSE << >>

NoMatch == [ matched |-> FALSE, group |-> << >> ]

(***************************************************************************)
(* Numbers of the natural-language route.  A JavaScript number is a        *)
(* double: the integers it holds are written here as decimal numerals      *)
(* (sequences of digits without leading zeros), of any size below 2^1024.  *)
(***************************************************************************)
\* 2^53: every integer up to it is a double, and not every one beyond
TwoTo53 ==
  << "9", "0", "0", "7", "1", "9", "9", "2", "5", "4", "7", "4", "0", "9", "9", "2" >>

RECURSIVE StripZeros(_)
StripZeros(d) ==
  IF Len(d) > 1 /\ d[1] = "0" THEN StripZeros(Tail(d)) ELSE d

DigitOf(n) == Digits[n + 1]

\* a < b, of two numerals
NumLess(a, b) ==
  \/ Len(a) < Len(b)
  \/ /\ Len(a) = Len(b)
     /\ \E i \in DOMAIN a :
          /\ \A j \in 1 .. i - 1 : a[j] = b[j]
          /\ IndexIn(Digits, a[i]) < IndexIn(Digits, b[i])

Odd(a) == (IndexIn(Digits, a[Len(a)]) - 1) % 2 = 1

\* a + 1
RECURSIVE Succ(_)
Succ(a) ==
  IF a = << >> THEN << "1" >>
  ELSE IF a[Len(a)] = "9"
  THEN Succ(SubSeq(a, 1, Len(a) - 1)) \o << "0" >>
  ELSE SubSeq(a, 1, Len(a) - 1) \o << DigitOf(IndexIn(Digits, a[Len(a)])) >>

\* the digits of (rem * 10^Len(a) + a) \div 2
RECURSIVE HalfDigits(_, _)
HalfDigits(a, rem) ==
  IF a = << >> THEN << >>
  ELSE LET v == rem * 10 + IndexIn(Digits, a[1]) - 1
       IN  << DigitOf(v \div 2) >> \o HalfDigits(Tail(a), v % 2)

Half(a) == StripZeros(HalfDigits(a, 0))

\* the digits of 2 * a + carry
RECURSIVE TwiceDigits(_, _)
TwiceDigits(a, carry) ==
  IF a = << >> THEN IF carry = 0 THEN << >> ELSE << DigitOf(carry) >>
  ELSE LET v == 2 * (IndexIn(Digits, a[Len(a)]) - 1) + carry
       IN  TwiceDigits(SubSeq(a, 1, Len(a) - 1), v \div 10)
             \o << DigitOf(v % 10) >>

Twice(a) == IF a = << "0" >> THEN a ELSE TwiceDigits(a, 0)

\* x * 2^k rounded to a double, ties to even: guard is the last bit shifted
\* out of x, sticky tells whether a bit shifted out before it was set
RECURSIVE RoundShift(_, _, _)
RoundShift(x, guard, sticky) ==
  IF NumLess(x, TwoTo53)
  THEN IF guard /\ (sticky \/ Odd(x)) THEN Succ(x) ELSE x
  ELSE Twice(RoundShift(Half(x), Odd(x), guard \/ sticky))

\* the double nearest to the integer x
ToDouble(x) == RoundShift(x, FALSE, FALSE)

\* Number(longerMatch[1]), of a run of digits
NumberOfDigits(digits) == ToDouble(StripZeros(digits))

\* x + 1 of a double x
PlusOne(x) == ToDouble(Succ(x))

\* a number as the store compares it with a length: see Huge
Comparable(x) == IF Len(x) > 9 THEN 10 ^ 9 ELSE DecimalValue(x)

\* queryLower.match(/longer than (\d+)/): the leftmost match and its group
MatchLonger(s) ==
  LET lit == << "l", "o", "n", "g", "e", "r", " ", "t", "h", "a", "n", " " >>
      starts == { i \in 1 .. Len(s) :
                    StartsAt(s, i, lit) /\ DigitRun(s, i + Len(lit)) # << >> }
  IN  IF starts = { } THEN NoMatch
      ELSE LET i == CHOOSE i \in starts : \A j \in starts : i <= j
           IN  [ matched |-> TRUE, group |-> DigitRun(s, i + Len(lit)) ]

\* the positions of the letter that
\* /contains? (?:the letter|character)? ([a-z])/ captures when it matches
\* from position i: at most one, as the next character decides each option
ContainsAt(s, i) ==
  LET p1 == After(s, { i }, << "c", "o", "n", "t", "a", "i", "n" >>)
      p2 == p1 \cup After(s, p1, << "s" >>)
      p3 == After(s, p2, << " " >>)
      p4 == p3 \cup After(s, p3, << "t", "h", "e", " ", "l", "e", "t", "t", "e", "r" >>) \cup After(s, p3, << "c", "h", "a", "r", "a", "c", "t", "e", "r" >>)
      p5 == After(s, p4, << " " >>)
  IN  { p \in p5 : p <= Len(s) /\ IsLower(s[p]) }

\* queryLower.match(/contains? (?:the letter|character)? ([a-z])/)
MatchContains(s) ==
  LET starts == { i \in 1 .. Len(s) : ContainsAt(s, i) # { } }
  IN  IF starts = { } THEN NoMatch
      ELSE LET i == CHOOSE i \in starts : \A j \in starts : i <= j
               p == CHOOSE p \in ContainsAt(s, i) : TRUE
           IN  [ matched |-> TRUE, group |-> << s[p] >> ]

\* an object with the key k when cond holds
Key(cond, k, val) == IF cond THEN k :> val ELSE << >>

\* the filters read from the query text
ParseNaturalLanguage(q) ==
  LET queryLower == toLowerCase(q)
      longerMatch == MatchLonger(queryLower)
      containsMatch == MatchContains(queryLower)
  IN  Key(includes(queryLower, << "p", "a", "l", "i", "n", "d", "r", "o", "m" >>), "is_palindrome", TRUE)
      @@ Key(includes(queryLower, << "s", "i", "n", "g", "l", "e", " ", "w", "o", "r", "d" >>), "word_count", 1)
      @@ Key(longerMatch.matched, "min_length",
             PlusOne(NumberOfDigits(longerMatch.group)))
      @@ Key(containsMatch.matched, "contains_character", containsMatch.group)

\* ch.replace(/[.*+?^${}()|[\]\\]/g, '\\$&') and the RegExp made of it
\* stand for the character ch itself
NaturalLanguageDbQuery(parsed) ==
  Key(Has(parsed, "is_palindrome"), "properties.is_palindrome",
      parsed["is_palindrome"])
  @@ Key(Has(parsed, "word_count"), "properties.word_count",
         parsed["word_count"])
  @@ Key(Has(parsed, "min_length"), "properties.length",
         "$gte" :> Comparable(parsed["min_length"]))
  @@ Key(Has(parsed, "contains_character"), "value",
         "$regex" :> parsed["contains_character"][1])

\* a handler that queries the store with whatever was parsed, nothing too
FilterByNaturalLanguageUnfiltered(r) ==
  /\ reqs[r].pc = "received"
  /\ reqs[r].op = "NL"
  /\ LET q == reqs[r].query["query"]
     IN  IF ~ q.defined \/ q.str = << >>
         THEN Respond(r, reqs[r],
                Error(400, "Bad Request", "Missing \"query\" parameter"))
         ELSE LET parsed == ParseNaturalLanguage(q.str)
              IN  Await(r, reqs[r],
                    [ results |-> memFind(inMemoryStore,
                                    NaturalLanguageDbQuery(parsed)),
                      parsed |-> parsed ])
  /\ UNCHANGED << variant, inMemoryStore, now, hist >>

FilterByNaturalLanguage(r) ==
  /\ reqs[r].pc = "received"
  /\ reqs[r].op = "NL"
  /\ LET q == reqs[r].query["query"]
     IN  IF ~ q.defined \/ q.str = << >>
         THEN Respond(r, reqs[r],
                Error(400, "Bad Request", "Missing \"query\" parameter"))
         ELSE LET parsed == ParseNaturalLanguage(q.str)
              IN  IF DOMAIN parsed = { }
                  THEN Respond(r, reqs[r],
                         Error(400, "Bad Request",
                               "Unable to parse natural language query"))
                  ELSE Await(r, reqs[r],
                         [ results |-> memFind(inMemoryStore,
                                         NaturalLanguageDbQuery(parsed)),
                           parsed |-> parsed ])
  /\ UNCHANGED << variant, inMemoryStore, now, hist >>

FilterByNaturalLanguageResume(r) ==
  /\ reqs[r].pc = "await"
  /\ reqs[r].op = "NL"
  /\ LET results == reqs[r].local.results
     IN  Respond(r, reqs[r],
           Response(200,
             [ data |-> { mapDocToResponse(doc) : doc \in results },
               count |-> Cardinality(results),
               interpreted_query |->
                 [ original |-> reqs[r].query["query"].str,
                   parsed_filters |-> reqs[r].local.parsed ] ]))
  /\ UNCHANGED << variant, inMemoryStore, now, hist >>

(***************************************************************************)
(* GET /strings                                                            *)
(***************************************************************************)
\* a JavaScript number, as far as the handler tells numbers apart
Num(kind, val) == [ kind |-> kind, val |-> val ]

NaN == Num("nan", 0)

\* integers beyond this one are all kept as this one: it is above every
\* length and word count of the model
Huge == 10 ^ 9

\* the value of a character as a digit (36 for none)
DigitValue(c) ==
  IF IsDigit(c) THEN IndexIn(Digits, c) - 1
  ELSE IF c \in Range(LowerCase) THEN IndexIn(LowerCase, c) + 9
  ELSE IF c \in Range(UpperCase) THEN IndexIn(UpperCase, c) + 9
  ELSE 36

AllDigits(s, radix) ==
  s # << >> /\ \A i \in DOMAIN s : DigitValue(s[i]) < radix

RECURSIVE RadixValue(_, _)
RadixValue(s, radix) ==
  IF s = << >> THEN 0
  ELSE LET v == RadixValue(SubSeq(s, 1, Len(s) - 1), radix) * radix
                  + DigitValue(s[Len(s)])
       IN  IF v > Huge THEN Huge ELSE v

\* 0x, 0o, 0b literals (NonDecimalIntegerLiteral)
RadixOf(c) ==
  CASE c \in { "x", "X" } -> 16
    [] c \in { "o", "O" } -> 8
    [] c \in { "b", "B" } -> 2
    [] OTHER -> 0

\* StrUnsignedDecimalLiteral: digits, a fraction and an exponent
DecimalLiteral(u) ==
  LET es == { i \in DOMAIN u : u[i] \in { "e", "E" } }
      e == IF es = { } THEN Len(u) + 1
           ELSE CHOOSE i \in es : \A j \in es : i <= j
      mant == SubSeq(u, 1, e - 1)
      ex == SubSeq(u, e + 1, Len(u))
      exNeg == ex # << >> /\ ex[1] = "-"
      exDigits == IF ex # << >> /\ ex[1] \in { "+", "-" } THEN Tail(ex) ELSE ex
      dots == { i \in DOMAIN mant : mant[i] = "." }
      dot == IF dots = { } THEN Len(mant) + 1
             ELSE CHOOSE i \in dots : \A j \in dots : i <= j
      ip == SubSeq(mant, 1, dot - 1)
      fp == SubSeq(mant, dot + 1, Len(mant))
      valid == /\ es # { } => AllDigits(exDigits, 10)
               /\ ip # << >> => AllDigits(ip, 10)
               /\ fp # << >> => AllDigits(fp, 10)
               /\ Len(ip) + Len(fp) >= 1
      n == DecimalValue(ip \o fp)
      expo == IF es = { } THEN 0
              ELSE IF exNeg THEN 0 - DecimalValue(exDigits)
              ELSE DecimalValue(exDigits)
      \* the value is n / 10^scale
      scale == Len(fp) - expo
  IN  IF ~ valid THEN NaN
      ELSE IF n = 0 THEN Num("int", 0)
      ELSE IF scale <= 0
      THEN IF Len(ip \o fp) - scale > 309 THEN Num("inf", 0)
           ELSE IF Len(ip \o fp) - scale > 9 THEN Num("int", Huge)
           ELSE Num("int", n * 10 ^ (0 - scale))
      ELSE IF scale > 330 THEN Num("int", 0)
      ELSE IF scale > 9 THEN Num("frac", 0)
      ELSE IF n % (10 ^ scale) = 0 THEN Num("int", n \div 10 ^ scale)
      ELSE Num("frac", n \div 10 ^ scale)

Negate(x) == [ x EXCEPT !.val = 0 - x.val ]

\* Number(text) of a string (StringToNumber)
Number(text) ==
  LET t == trim(text)
  IN  IF t = << >> THEN Num("int", 0)
      ELSE IF Len(t) > 2 /\ t[1] = "0" /\ RadixOf(t[2]) # 0
      THEN IF AllDigits(SubSeq(t, 3, Len(t)), RadixOf(t[2]))
           THEN Num("int", RadixValue(SubSeq(t, 3, Len(t)), RadixOf(t[2])))
           ELSE NaN
      ELSE LET signed == t[1] \in { "+", "-" }
               u == IF signed THEN Tail(t) ELSE t
               x == IF u = << "I", "n", "f", "i", "n", "i", "t", "y" >> THEN Num("inf", 0)
                    ELSE DecimalLiteral(u)
           IN  IF t[1] = "-" THEN Negate(x) ELSE x

isNaN(text) == Number(text).kind = "nan"

NumberIsInteger(x) == x.kind = "int"

\* the check of min_length, max_length and word_count
NotInteger(text) == isNaN(text) \/ ~ NumberIsInteger(Number(text))

\* the first check of the handler that fails ("none" when all pass)
ListError(query) ==
  LET bad(p) == query[p].defined /\ NotInteger(query[p].str)
  IN  CASE query["is_palindrome"].defined
             /\ query["is_palindrome"].str # << "t", "r", "u", "e" >>
             /\ query["is_palindrome"].str # << "f", "a", "l", "s", "e" >>
             -> "is_palindrome must be \"true\" or \"false\""
        [] OTHER ->
      CASE bad("min_length") -> "min_length must be integer"
        [] OTHER ->
      CASE bad("max_length") -> "max_length must be integer"
        [] OTHER ->
      CASE bad("word_count") -> "word_count must be integer"
        [] OTHER ->
      CASE query["contains_character"].defined
             /\ Len(query["contains_character"].str) # 1
             -> "contains_character must be a single character"
        [] OTHER -> "none"

FiltersApplied(query) ==
  LET num(p) == Key(query[p].defined, p, Number(query[p].str).val)
  IN  Key(query["is_palindrome"].defined, "is_palindrome",
          query["is_palindrome"].str = << "t", "r", "u", "e" >>)
      @@ num("min_length") @@ num("max_length") @@ num("word_count")
      @@ Key(query["contains_character"].defined, "contains_character",
             query["contains_character"].str)

ListDbQuery(filtersApplied) ==
  Key(Has(filtersApplied, "is_palindrome"), "properties.is_palindrome",
      filtersApplied["is_palindrome"])
  @@ Key(Has(filtersApplied, "min_length") \/ Has(filtersApplied, "max_length"),
         "properties.length",
         Key(Has(filtersApplied, "min_length"), "$gte",
             filtersApplied["min_length"])
         @@ Key(Has(filtersApplied, "max_length"), "$lte",
                filtersApplied["max_length"]))
  @@ Key(Has(filtersApplied, "word_count"), "properties.word_count",
         filtersApplied["word_count"])
  @@ Key(Has(filtersApplied, "contains_character"), "value",
         "$regex" :> filtersApplied["contains_character"][1])

GetStrings(r) ==
  /\ reqs[r].pc = "received"
  /\ reqs[r].op = "LIST"
  /\ LET query == reqs[r].query
     IN  IF ListError(query) # "none"
         THEN Respond(r, reqs[r], Error(400, "Bad Request", ListError(query)))
         ELSE LET filtersApplied == FiltersApplied(query)
              IN  Await(r, reqs[r],
                    [ docs |-> memFind(inMemoryStore,
                                 ListDbQuery(filtersApplied)),
                      filtersApplied |-> filtersApplied ])
  /\ UNCHANGED << variant, inMemoryStore, now, hist >>

GetStringsResume(r) ==
  /\ reqs[r].pc = "await"
  /\ reqs[r].op = "LIST"
  /\ LET docs == reqs[r].local.docs
         filtersApplied == reqs[r].local.filtersApplied
     IN  Respond(r, reqs[r],
           Response(200,
             [ data |-> { mapDocToResponse(doc) : doc \in docs },
               count |-> Cardinality(docs),
               filters_applied |->
                 IF DOMAIN filtersApplied # { } THEN filtersApplied
                 ELSE << "n", "o", "n", "e" >> ]))
  /\ UNCHANGED << variant, inMemoryStore, now, hist >>

Next ==
  \/ Tick
  \/ \E r \in Slots : \E body \in Bodies : PostStrings(r, body)
  \/ \E r \in Slots : PostStringsResume(r)
  \/ \E r \in Slots : \E v \in Values : DeleteString(r, v)
  \/ \E r \in Slots : DeleteStringResume(r)
  \/ \E r \in Slots : \E v \in Values : GetString(r, v)
  \/ \E r \in Slots : GetStringResume(r)

Spec == Init /\ [][Next]_vars

(***************************************************************************)
(* One request to a read-only route, on a store that earlier requests      *)
(* have filled.                                                            *)
(***************************************************************************)
StoreOf(S) ==
  [ k \in { calculateHash(v) : v \in S } |->
      NewDoc(CHOOSE v \in S : calculateHash(v) = k, 0) ]

InitStore(request) ==
  /\ variant \in Variants
  /\ \E S \in SUBSET Values :
       /\ inMemoryStore = StoreOf(S)
       /\ hist = [ v \in Values |-> IF v \in S THEN "posted" ELSE "never" ]
  /\ now = 0
  /\ reqs = [ r \in Slots |-> IF r = 1 THEN request ELSE IdleReq ]

Fragments ==
  { << "c", "o", "n", "t", "a", "i", "n", "s", " " >>,
    << "c", "o", "n", "t", "a", "i", "n", " " >>,
    << "t", "h", "e", " ", "l", "e", "t", "t", "e", "r", " " >>,
    << "c", "h", "a", "r", "a", "c", "t", "e", "r", " " >>,
    << " " >>,
    << "a" >>,
    << "l", "o", "n", "g", "e", "r", " ", "t", "h", "a", "n", " " >>,
    << "4" >>,
    << "P", "a", "l", "i", "n", "d", "r", "o", "m", "i", "c", " " >>,
    << "s", "i", "n", "g", "l", "e", " ", "w", "o", "r", "d", " " >> }

\* the texts made of at most n fragments
RECURSIVE Texts(_)
Texts(n) ==
  IF n = 0 THEN { << >> }
  ELSE Texts(n - 1) \cup { t \o f : t \in Texts(n - 1), f \in Fragments }

\* the integers from 2^53 - 2 to 2^53 + 7
BigNumerals == { SubSeq(TwoTo53, 1, Len(TwoTo53) - 1) \o << d >> : d \in Range(Digits) }

\* "longer than N", N one of these integers
BigTexts ==
  { << "l", "o", "n", "g", "e", "r", " ", "t", "h", "a", "n", " " >> \o n :
      n \in BigNumerals }

\* example queries: two cues together, the query of the README, no cue
SingleWordPalindromes ==
  << "s", "i", "n", "g", "l", "e", " ", "w", "o", "r", "d", " ",
     "p", "a", "l", "i", "n", "d", "r", "o", "m", "e", "s" >>

LongerThan4ContainA ==
  << "s", "t", "r", "i", "n", "g", "s", " ", "l", "o", "n", "g",
     "e", "r", " ", "t", "h", "a", "n", " ", "4", " ", "t", "h",
     "a", "t", " ", "c", "o", "n", "t", "a", "i", "n", " ", "t",
     "h", "e", " ", "l", "e", "t", "t", "e", "r", " ", "a" >>

Banana == << "b", "a", "n", "a", "n", "a" >>

ExampleTexts == { SingleWordPalindromes, LongerThan4ContainA, Banana }

NLQueries ==
  { NoQuery } \cup
  { [ NoQuery EXCEPT !["query"] = Param(t) ] :
      t \in Texts(MaxFrags) \cup BigTexts \cup ExampleTexts }

InitNL == \E q \in NLQueries : InitStore(Received("NL", q))

NextNL ==
  \/ \E r \in Slots : FilterByNaturalLanguage(r)
  \/ \E r \in Slots : FilterByNaturalLanguageResume(r)

SpecNL == InitNL /\ [][NextNL]_vars

\* the characters numeric parameters are made of
NumChars == { "1", "0", " ", "x", "e", "." }

\* the texts of at most n of these characters
RECURSIVE NumTexts(_)
NumTexts(n) ==
  IF n = 0 THEN { << >> }
  ELSE NumTexts(n - 1)
         \cup { Append(t, c) : t \in NumTexts(n - 1), c \in NumChars }

NumericParams == { "min_length", "max_length", "word_count" }

Optional(S) == { Undefined } \cup { Param(t) : t \in S }

\* one numeric parameter of any text, or any parameters of a few texts
ListQueries ==
  { [ NoQuery EXCEPT ![p] = Param(t) ] :
      p \in NumericParams, t \in NumTexts(MaxNumLen) }
  \cup
  { [ NoQuery EXCEPT !["is_palindrome"] = pal, !["min_length"] = min,
                     !["max_length"] = max, !["word_count"] = wc,
                     !["contains_character"] = ch ] :
      pal \in Optional({ << "t", "r", "u", "e" >>, << "f", "a", "l", "s", "e" >>, << "y", "e", "s" >> }),
      min \in Optional({ << "4" >>, << "5" >>, << "-", "1" >> }),
      max \in Optional({ << "3" >>, << "4" >> }),
      wc \in Optional({ << "1" >> }),
      ch \in Optional({ << "a" >>, << "B" >>, << "a", "b" >>, << "." >> }) }

InitList == \E q \in ListQueries : InitStore(Received("LIST", q))

NextList ==
  \/ \E r \in Slots : GetStrings(r)
  \/ \E r \in Slots : GetStringsResume(r)

SpecList == InitList /\ [][NextList]_vars

(***************************************************************************)
(* isPalindrome alone, applied to one string.                              *)
(***************************************************************************)
PalChars == { "a", "A", "b", "1", " ", "!" }

\* the strings of at most n of these characters
RECURSIVE PalStrings(_)
PalStrings(n) ==
  IF n = 0 THEN { << >> }
  ELSE PalStrings(n - 1)
         \cup { Append(t, c) : t \in PalStrings(n - 1), c \in PalChars }

RaceCar == << "R", "a", "c", "e", " ", "C", "a", "r", "!" >>

Hello == << "h", "e", "l", "l", "o" >>

PalInputs == PalStrings(MaxLen) \cup { RaceCar, Hello }

InitPal ==
  /\ variant \in Variants
  /\ inMemoryStore = EmptyStore
  /\ now = 0
  /\ hist = [ v \in Values |-> "never" ]
  /\ \E value \in PalInputs :
       reqs = [ r \in Slots |->
                  IF r = 1
                  THEN [ IdleReq EXCEPT !.pc = "received", !.op = "PAL",
                                        !.stringValue = value ]
                  ELSE IdleReq ]

\* is_palindrome: isPalindrome(value) of computeStringProperties
IsPalindromeCall(r) ==
  /\ reqs[r].pc = "received"
  /\ reqs[r].op = "PAL"
  /\ Respond(r, reqs[r],
       Response(0, [ is_palindrome |-> isPalindrome(reqs[r].stringValue) ]))
  /\ UNCHANGED << variant, inMemoryStore, now, hist >>

NextPal == \E r \in Slots : IsPalindromeCall(r)

SpecPal == InitPal /\ [][NextPal]_vars

(***************************************************************************)
(* Properties.                                                             *)
(***************************************************************************)
Stored(v) == calculateHash(v) \in DOMAIN inMemoryStore

RecordsOf(v) == { k \in DOMAIN inMemoryStore : inMemoryStore[k].value = v }

\* request r has been answered; its slot still shows request and response
Answered(r, op) == reqs[r].pc = "done" /\ reqs[r].op = op

\* this step is the handler of a new request `op` in slot r, up to its await
Starts(r, op) == Free(r) /\ reqs'[r] # reqs[r] /\ reqs'[r].op = op

\* this step is the continuation of the handler of r after its await
Resumes(r, op) ==
  reqs[r].pc = "await" /\ reqs[r].op = op /\ reqs'[r].pc = "done"

PostedString(r) ==
  /\ reqs[r].op = "POST"
  /\ ~ MissingValue(reqs[r].body)
  /\ reqs[r].body.value.type = "string"

\* C1: of two successive POST /strings of the same value with no DELETE
\* between them, one is answered 201 and the other 409, and the store then
\* holds exactly one record for the value: a POST of a value whose last
\* change was a successful POST is answered 409, any other POST of a string
\* 201, and a posted value has one record.
C1_IdempotentRejection ==
  /\ \A r \in Slots :
       (Answered(r, "POST") /\ PostedString(r)) =>
         /\ reqs[r].prior = "posted" => reqs[r].res.status = 409
         /\ reqs[r].prior # "posted" => reqs[r].res.status = 201
  /\ \A v \in Values : hist[v] = "posted" => Cardinality(RecordsOf(v)) = 1

\* C2: a stored record keeps its value, properties and created_at in every
\* later state until it is deleted: no step changes a record that stays.
C2_RecordsImmutable ==
  [][ \A k \in DOMAIN inMemoryStore :
        k \in DOMAIN inMemoryStore' => inMemoryStore'[k] = inMemoryStore[k]
    ]_vars

\* C3: of two POST /strings of the same value in flight together at most
\* one is answered 201.  A POST handler suspended at its await has inserted
\* its document and answers 201 when it resumes, so two handlers of the same
\* value are never suspended there together.
C3_OneConcurrentInsert ==
  \A r1, r2 \in Slots :
    ( /\ r1 # r2
      /\ reqs[r1].pc = "await" /\ reqs[r1].op = "POST"
      /\ reqs[r2].pc = "await" /\ reqs[r2].op = "POST" )
    => reqs[r1].body.value.str # reqs[r2].body.value.str

\* C4: every record is stored under its _id, which is its sha256_hash and
\* the digest of its value; no two stored records have the same value.
C4_ContentAddressed ==
  /\ \A k \in DOMAIN inMemoryStore :
       LET doc == inMemoryStore[k]
       IN  /\ doc._id = k
           /\ doc.properties.sha256_hash = doc._id
           /\ calculateHash(doc.value) = doc._id
  /\ \A k1, k2 \in DOMAIN inMemoryStore :
       inMemoryStore[k1].value = inMemoryStore[k2].value => k1 = k2

C4_Witness ==
  /\ Cardinality(DOMAIN inMemoryStore) = 2
  /\ \E r \in Slots : Answered(r, "POST") /\ reqs[r].res.status = 201

\* C5: a GET /strings/:value of a value whose last change was a DELETE
\* answered 204 (no POST of it has succeeded since) is answered 404.
C5_DeleteThenGet ==
  \A r \in Slots :
    (Answered(r, "GET") /\ reqs[r].prior = "deleted") =>
      reqs[r].res.status = 404

C5_Witness ==
  \E r \in Slots :
    Answered(r, "GET") /\ reqs[r].prior = "deleted" /\ reqs[r].res.status = 404

\* C6: DELETE /strings/:value is answered 204 exactly when the record of
\* the value is stored, and then removes that record and no other;
\* otherwise it is answered 404 and leaves the store as it is.
C6_DeleteExact ==
  [][ \A r \in Slots :
        /\ Starts(r, "DELETE") =>
             LET id == calculateHash(reqs'[r].stringValue)
                 kept == DOMAIN inMemoryStore \ { id }
             IN  /\ inMemoryStore' = [ k \in kept |-> inMemoryStore[k] ]
                 /\ reqs'[r].pc = "await"
                 /\ reqs'[r].local.deletedCount = 1
                      <=> id \in DOMAIN inMemoryStore
        /\ Resumes(r, "DELETE") =>
             /\ inMemoryStore' = inMemoryStore
             /\ reqs'[r].res.status =
                  IF reqs[r].local.deletedCount = 1 THEN 204 ELSE 404
    ]_vars

C6_Witness ==
  /\ \E r \in Slots : Answered(r, "DELETE") /\ reqs[r].res.status = 204
  /\ \E r \in Slots : Answered(r, "DELETE") /\ reqs[r].res.status = 404
  /\ DOMAIN inMemoryStore # { }

\* C7: POST /strings is answered 400 when the body has no value field and
\* 422 when the value is no string, in the handler's first step and with
\* the store left as it is.
C7_PostValidation ==
  [][ \A r \in Slots :
        Starts(r, "POST") =>
          LET body == reqs'[r].body
          IN  /\ (~ body.defined \/ ~ body.has_value) =>
                   /\ reqs'[r].pc = "done"
                   /\ reqs'[r].res.status = 400
                   /\ inMemoryStore' = inMemoryStore
              /\ (body.defined /\ body.has_value
                    /\ body.value.type # "string") =>
                   /\ reqs'[r].pc = "done"
                   /\ reqs'[r].res.status = 422
                   /\ inMemoryStore' = inMemoryStore
    ]_vars

C7_Witness ==
  /\ \E r \in Slots :
       /\ Answered(r, "POST") /\ reqs[r].res.status = 400
       /\ reqs[r].body.defined
  /\ \E r \in Slots : Answered(r, "POST") /\ reqs[r].res.status = 422

\* C8: GET /strings/:value is answered 200 with the stored record (id,
\* value, properties, created_at) exactly when the record of the value is
\* stored, and 404 otherwise; a value whose last change was a successful
\* POST is answered 200 with its record.
C8_GetExact ==
  /\ [][ \A r \in Slots :
           Starts(r, "GET") =>
             LET v == reqs'[r].stringValue
             IN  /\ reqs'[r].pc = "await"
                 /\ Stored(v) =>
                      reqs'[r].local = inMemoryStore[calculateHash(v)]
                 /\ ~ Stored(v) => reqs'[r].local = Null
       ]_vars
  /\ [] \A r \in Slots :
          Answered(r, "GET") =>
            LET doc == reqs[r].local
                res == reqs[r].res
                v == reqs[r].stringValue
            IN  /\ doc = Null => res.status = 404
                /\ doc # Null =>
                     /\ res.status = 200
                     /\ res.json.id = doc._id
                     /\ res.json.value = doc.value
                     /\ res.json.properties = doc.properties
                     /\ res.json.created_at = doc.created_at
                /\ reqs[r].prior = "posted" =>
                     /\ res.status = 200
                     /\ res.json.id = calculateHash(v)
                     /\ res.json.value = v
                     /\ res.json.properties = computeStringProperties(v)

C8_Witness ==
  \E r \in Slots :
    /\ Answered(r, "GET") /\ reqs[r].prior = "posted"
    /\ reqs[r].res.status = 200

\* the letters c for which the text has "contain" or "contains", then
\* optionally " the letter" or " character", then " c", c a letter on its
\* own (no letter follows it)
ContainsCues(s) ==
  { s[p] : p \in
      { p \in 1 .. Len(s) :
          /\ IsLower(s[p])
          /\ p < Len(s) => ~ IsLower(s[p + 1])
          /\ \E i \in 1 .. Len(s) :
               LET p1 == After(s, { i }, << "c", "o", "n", "t", "a", "i", "n" >>)
                   p2 == p1 \cup After(s, p1, << "s" >>)
                   p3 == p2 \cup After(s, p2, << " ", "t", "h", "e", " ", "l", "e", "t", "t", "e", "r" >>)
                            \cup After(s, p2, << " ", "c", "h", "a", "r", "a", "c", "t", "e", "r" >>)
               IN  p \in After(s, p3, << " " >>) } }

ParsedFilters(r) == reqs[r].res.json.interpreted_query.parsed_filters

\* C9: a query whose lowercased text has "contain" or "contains",
\* optionally followed by "the letter" or "character", followed by a single
\* letter c is answered with contains_character = c; and whenever
\* contains_character is set it is one letter a-z.
C9_ContainsCue ==
  \A r \in Slots :
    Answered(r, "NL") =>
      LET q == reqs[r].query["query"]
          cues == IF q.defined THEN ContainsCues(toLowerCase(q.str)) ELSE { }
      IN  /\ cues # { } =>
               /\ reqs[r].res.status = 200
               /\ Has(ParsedFilters(r), "contains_character")
               /\ ParsedFilters(r)["contains_character"][1] \in cues
          /\ (reqs[r].res.status = 200
                /\ Has(ParsedFilters(r), "contains_character")) =>
               /\ Len(ParsedFilters(r)["contains_character"]) = 1
               /\ IsLower(ParsedFilters(r)["contains_character"][1])

\* an integer in decimal notation: digits, after a sign or not
IsIntegerText(t) ==
  LET digits == IF t # << >> /\ t[1] \in { "+", "-" } THEN Tail(t) ELSE t
  IN  digits # << >> /\ \A i \in DOMAIN digits : IsDigit(digits[i])

\* C10: GET /strings with a min_length, max_length or word_count whose
\* text is no integer (the empty string, white space, other notations) is
\* answered 400: no such text is made a number and used as a filter.
C10_NumericParamsRejected ==
  \A r \in Slots :
    Answered(r, "LIST") =>
      \A p \in NumericParams :
        (reqs[r].query[p].defined /\ ~ IsIntegerText(reqs[r].query[p].str))
          => reqs[r].res.status = 400

\* the texts /contains? (?:the letter|character)? / reads before the letter
ContainsPrefixes ==
  { << "c", "o", "n", "t", "a", "i", "n" >> \o s \o << " " >> \o m \o << " " >> :
      s \in { << >>, << "s" >> },
      m \in { << >>, << "t", "h", "e", " ", "l", "e", "t", "t", "e", "r" >>,
              << "c", "h", "a", "r", "a", "c", "t", "e", "r" >> } }

\* text p, then a character of the kind Is, somewhere in s
Followed(s, p, Is(_)) ==
  \E i \in 1 .. Len(s) :
    StartsAt(s, i, p) /\ i + Len(p) <= Len(s) /\ Is(s[i + Len(p)])

\* the four cues of a lowercased query
PalindromCue(s) == includes(s, << "p", "a", "l", "i", "n", "d", "r", "o", "m" >>)

SingleWordCue(s) ==
  includes(s, << "s", "i", "n", "g", "l", "e", " ", "w", "o", "r", "d" >>)

LongerCue(s) ==
  Followed(s, << "l", "o", "n", "g", "e", "r", " ", "t", "h", "a", "n", " " >>, IsDigit)

ContainsCue(s) == \E p \in ContainsPrefixes : Followed(s, p, IsLower)

\* request r has a query text, and it matches none of the cues
NoCue(r) ==
  LET q == reqs[r].query["query"]
  IN  /\ q.defined
      /\ ~ PalindromCue(toLowerCase(q.str))
      /\ ~ SingleWordCue(toLowerCase(q.str))
      /\ ~ LongerCue(toLowerCase(q.str))
      /\ ~ ContainsCue(toLowerCase(q.str))

\* C11: a natural-language request whose query is missing, empty or matches
\* none of the four cues never reaches the store query and is answered 400;
\* so every 200 carries at least one parsed filter.
C11_UnparseableRejected ==
  \A r \in Slots :
    /\ (reqs[r].op = "NL" /\ reqs[r].pc \in { "await", "done" }
          /\ (~ reqs[r].query["query"].defined \/ NoCue(r))) =>
         /\ reqs[r].pc = "done"
         /\ reqs[r].local = Null
         /\ reqs[r].res.status = 400
    /\ (Answered(r, "NL") /\ reqs[r].res.status = 200) =>
         DOMAIN ParsedFilters(r) # { }

\* a query text with words in it and no cue has been answered 400 while
\* records are stored
C11_Witness ==
  \E r \in Slots :
    /\ Answered(r, "NL") /\ NoCue(r)
    /\ Len(reqs[r].query["query"].str) > 1
    /\ inMemoryStore # EmptyStore
    /\ reqs[r].res.status = 400

\* the number N of the leftmost "longer than N" of s, as a numeral
LongerThanN(s) ==
  LET lit == << "l", "o", "n", "g", "e", "r", " ", "t", "h", "a", "n", " " >>
      starts == { i \in 1 .. Len(s) :
                    /\ StartsAt(s, i, lit)
                    /\ i + Len(lit) <= Len(s)
                    /\ IsDigit(s[i + Len(lit)]) }
      i == CHOOSE i \in starts : \A j \in starts : i <= j
  IN  StripZeros(DigitRun(s, i + Len(lit)))

\* the document satisfies the parsed filters other than min_length
OtherFilters(doc, parsed) ==
  /\ Has(parsed, "is_palindrome") =>
       doc.properties.is_palindrome = parsed["is_palindrome"]
  /\ Has(parsed, "word_count") =>
       doc.properties.word_count = parsed["word_count"]
  /\ Has(parsed, "contains_character") =>
       \E i \in DOMAIN doc.value :
         LowerChar(doc.value[i]) = parsed["contains_character"][1]

\* request r, answered, asked for strings longer than N, and: min_length is
\* N + 1, every record of the answer is longer than N, and every stored
\* record of length N + 1 that satisfies the other filters is in the answer
LongerThanHolds(r) ==
  LET N == LongerThanN(toLowerCase(reqs[r].query["query"].str))
      data == reqs[r].res.json.data
  IN  /\ reqs[r].res.status = 200
      /\ Has(ParsedFilters(r), "min_length")
      /\ ParsedFilters(r)["min_length"] = Succ(N)
      /\ \A rec \in data : rec.properties.length > Comparable(N)
      /\ \A k \in DOMAIN inMemoryStore :
           (/\ inMemoryStore[k].properties.length = Comparable(N) + 1
            /\ OtherFilters(inMemoryStore[k], ParsedFilters(r)))
             => mapDocToResponse(inMemoryStore[k]) \in data

AsksLongerThan(r) ==
  /\ Answered(r, "NL")
  /\ reqs[r].query["query"].defined
  /\ LongerCue(toLowerCase(reqs[r].query["query"].str))

\* C12: a query with "longer than N", N a non-negative integer, is parsed
\* to min_length = N + 1; every record of the answer is longer than N and
\* every stored record of length N + 1 that satisfies the other parsed
\* filters is in the answer.
C12_LongerThan ==
  \A r \in Slots : AsksLongerThan(r) => LongerThanHolds(r)

\* the filters request r was answered with: none when it was refused
Present(r, k) == reqs[r].res.status = 200 /\ Has(ParsedFilters(r), k)

\* C13: each of is_palindrome, word_count, min_length, contains_character
\* is in parsed_filters exactly when its own cue matches the lowercased
\* query, whatever other cues match; "single word palindromes" is parsed to
\* exactly word_count 1 and is_palindrome true, "strings longer than 4 that
\* contain the letter a" to exactly min_length 5 and contains_character a.
C13_CuesIndependent ==
  \A r \in Slots :
    (Answered(r, "NL") /\ reqs[r].query["query"].defined) =>
      LET q == reqs[r].query["query"].str
          s == toLowerCase(q)
      IN  /\ Present(r, "is_palindrome") <=> PalindromCue(s)
          /\ Present(r, "word_count") <=> SingleWordCue(s)
          /\ Present(r, "min_length") <=> LongerCue(s)
          /\ Present(r, "contains_character") <=> ContainsCues(s) # { }
          /\ Present(r, "is_palindrome") => ParsedFilters(r)["is_palindrome"] = TRUE
          /\ Present(r, "word_count") => ParsedFilters(r)["word_count"] = 1
          /\ q = SingleWordPalindromes =>
               /\ reqs[r].res.status = 200
               /\ ParsedFilters(r) = ("word_count" :> 1 @@ "is_palindrome" :> TRUE)
          /\ q = LongerThan4ContainA =>
               /\ reqs[r].res.status = 200
               /\ ParsedFilters(r) = ("min_length" :> << "5" >>
                                       @@ "contains_character" :> << "a" >>)

\* the integer an integer text stands for
IntegerOf(t) ==
  IF t[1] = "-" THEN 0 - DecimalValue(Tail(t))
  ELSE IF t[1] = "+" THEN DecimalValue(Tail(t))
  ELSE DecimalValue(t)

\* the parameters of GET /strings are a valid filter set
ValidFilters(query) ==
  /\ query["is_palindrome"].defined =>
       query["is_palindrome"].str
         \in { << "t", "r", "u", "e" >>, << "f", "a", "l", "s", "e" >> }
  /\ \A p \in NumericParams : query[p].defined => IsIntegerText(query[p].str)
  /\ query["contains_character"].defined =>
       Len(query["contains_character"].str) = 1

\* the record satisfies every filter that is present
Satisfies(doc, query) ==
  /\ query["is_palindrome"].defined =>
       (doc.properties.is_palindrome
          <=> query["is_palindrome"].str = << "t", "r", "u", "e" >>)
  /\ query["word_count"].defined =>
       doc.properties.word_count = IntegerOf(query["word_count"].str)
  /\ query["min_length"].defined =>
       IntegerOf(query["min_length"].str) <= doc.properties.length
  /\ query["max_length"].defined =>
       doc.properties.length <= IntegerOf(query["max_length"].str)
  /\ query["contains_character"].defined =>
       \E i \in DOMAIN doc.value :
         LowerChar(doc.value[i]) = LowerChar(query["contains_character"].str[1])

\* C14: for every store and every valid filter set the find returns exactly
\* the stored records that satisfy all the filters present (is_palindrome
\* and word_count equal, min_length <= length <= max_length, the value
\* containing contains_character in either case), every record when no
\* filter is present, and count is the number of records returned.
C14_FindExact ==
  \A r \in Slots :
    (Answered(r, "LIST") /\ ValidFilters(reqs[r].query)) =>
      /\ reqs[r].res.status = 200
      /\ reqs[r].res.json.data =
           { mapDocToResponse(inMemoryStore[k]) :
               k \in { k \in DOMAIN inMemoryStore :
                         Satisfies(inMemoryStore[k], reqs[r].query) } }
      /\ reqs[r].res.json.count = Cardinality(reqs[r].res.json.data)
      /\ reqs[r].query = NoQuery =>
           reqs[r].res.json.count = Cardinality(DOMAIN inMemoryStore)

\* a find with an upper bound of the length and a letter has returned one
\* of two stored records: its length is the bound and it has the letter in
\* the other case
C14_Witness ==
  \E r \in Slots :
    /\ Answered(r, "LIST") /\ ValidFilters(reqs[r].query)
    /\ Cardinality(DOMAIN inMemoryStore) = 2
    /\ reqs[r].query["max_length"].defined
    /\ reqs[r].query["contains_character"].defined
    /\ reqs[r].res.status = 200
    /\ reqs[r].res.json.count = 1
    /\ \E rec \in reqs[r].res.json.data :
         /\ rec.properties.length = IntegerOf(reqs[r].query["max_length"].str)
         /\ reqs[r].query["contains_character"].str[1] \notin Range(rec.value)

\* a character that lowercasing and removing what is outside a-z and 0-9
\* keeps: a letter or a digit
Kept(c) == c \in Range(LowerCase) \cup Range(UpperCase) \cup Range(Digits)

\* the k-th kept character of s from the left and the k-th from the right
\* are the same up to case, for every k
Symmetric(s) ==
  LET P == { i \in DOMAIN s : Kept(s[i]) }
      FromLeft(i) == Cardinality({ j \in P : j <= i })
      FromRight(i) == Cardinality({ j \in P : j >= i })
  IN  \A i, j \in P :
        FromLeft(i) = FromRight(j) => LowerChar(s[i]) = LowerChar(s[j])

\* C15: is_palindrome(s) is true exactly when s, lowercased and without
\* the characters outside a-z and 0-9, reads the same backwards; so it is
\* true of the empty string and of strings of white space and punctuation
\* only, true of "Race Car!" and false of "hello".
C15_PalindromeLaw ==
  \A r \in Slots :
    Answered(r, "PAL") =>
      LET s == reqs[r].stringValue
          is_palindrome == reqs[r].res.json.is_palindrome
      IN  /\ is_palindrome <=> Symmetric(s)
          /\ (\A i \in DOMAIN s : ~ Kept(s[i])) => is_palindrome
          /\ s = RaceCar => is_palindrome
          /\ s = Hello => ~ is_palindrome

\* a string with a letter in both cases and a character that is removed has
\* been found to be a palindrome, and its characters as they are do not
\* read the same backwards
C15_Witness ==
  \E r \in Slots :
    /\ Answered(r, "PAL")
    /\ reqs[r].res.json.is_palindrome
    /\ reqs[r].stringValue # Reverse(reqs[r].stringValue)
    /\ \E i \in DOMAIN reqs[r].stringValue : ~ Kept(reqs[r].stringValue[i])
    /\ \E i, j \in DOMAIN reqs[r].stringValue :
         /\ reqs[r].stringValue[i] \in Range(UpperCase)
         /\ reqs[r].stringValue[j] = LowerChar(reqs[r].stringValue[i])

\* a POST of a value whose record a DELETE removed is answered 201 again,
\* and a value has one record when its last change is a POST and none when
\* it is a DELETE
HardDelete ==
  /\ \A v \in Values :
       /\ hist[v] = "posted" => Cardinality(RecordsOf(v)) = 1
       /\ hist[v] = "deleted" => RecordsOf(v) = { }
  /\ \A r \in Slots :
       (Answered(r, "POST") /\ PostedString(r) /\ reqs[r].prior = "deleted")
         => reqs[r].res.status = 201

\* C16: deletion leaves no tombstone: POST of v (201), DELETE of v (204),
\* then POST of v is answered 201 again and the store holds one record for
\* v; after any POSTs and DELETEs, a POST of v is answered 409 exactly when
\* a record for v is stored as the handler reaches the store.
C16_HardDelete ==
  /\ HardDelete
  /\ \A r \in Slots :
       (Answered(r, "POST") /\ PostedString(r)) =>
         (reqs[r].res.status = 409 <=> reqs[r].prior = "posted")

====
